---- MODULE Spec2Model ----
(***************************************************************************)
(* Model of the REST call core of src/utils/zendesk_utils.py               *)
(* (ZendeskClient), which src/utils/custom_apilib_base.py repeats line by   *)
(* line: the retry_on / max_retries policy of a client, one logical call   *)
(* (call_zendeskapi), its request loop with retry, pagination and result    *)
(* capture, and the merge of the captured pages.                           *)
(*                                                                         *)
(* Python values are tagged records [t |-> type, v |-> payload]; strings   *)
(* (URLs, header values) are sequences of tokens, so that the substring    *)
(* tests of the code ('incremental' in url, 'json' in content-type) are    *)
(* computed on the value.                                                  *)
(***************************************************************************)
EXTENDS Integers, Sequences, FiniteSets, TLC

\* ------------------------------------------------------------------ bounds
\* largest max_retries a client or a call is given
MaxRetriesBound == 2
\* HTTP exchanges the backend answers within one logical call
MaxExchanges == 3

\* ----------------------------------------------------------- Python values
PyNone == [t |-> "none"]
PyInt(n) == [t |-> "int", v |-> n]
PyStr(s) == [t |-> "str", v |-> s]
\* bytes of a response body: k is "empty" (b''), "blank" (white space only),
\* "json" (the text of the JSON value val) or "garbage" (no JSON text)
PyBytes(k, val) == [t |-> "bytes", k |-> k, val |-> val]
PyList(s) == [t |-> "list", v |-> s]
PyDict(pairs) == [t |-> "dict", v |-> pairs]
\* a header value that is the decimal text of the integer n
PyNumStr(n) == [t |-> "numstr", v |-> n]

\* truth value of a Python object in a condition
Truthy(x) ==
  CASE x.t = "none" -> FALSE
    [] x.t = "int" -> x.v # 0
    [] x.t \in {"str", "list", "dict"} -> Len(x.v) > 0
    [] x.t = "bytes" -> x.k # "empty"
    [] OTHER -> TRUE

\* `word in text` for a string given as its tokens
Contains(text, word) == \E i \in DOMAIN text : text[i] = word

\* dict.get(key, None)
RECURSIVE PairsGet(_, _)
PairsGet(pairs, key) ==
  IF pairs = <<>> THEN PyNone
  ELSE IF Head(pairs).k = key THEN Head(pairs).v
  ELSE PairsGet(Tail(pairs), key)

DictGet(d, key) == PairsGet(d.v, key)

\* ------------------------------------------------------ exception classes
NoExc == [cls |-> "none"]
Exc(cls, code) == [cls |-> cls, code |-> code]
\* Exception(error): a plain Exception whose only argument is `error`
WrapException(e) == [cls |-> "Exception", arg |-> e]

\* direct base class
Base(cls) ==
  CASE cls \in {"AuthenticationError", "RateLimitError"} -> "ZendeskError"
    [] cls = "ConnectionError" -> "RequestException"
    [] cls = "Exception" -> "BaseException"
    [] OTHER -> "Exception"

RECURSIVE IsSubclass(_, _)
IsSubclass(cls, of) ==
  IF cls = of THEN TRUE
  ELSE IF cls = "BaseException" THEN FALSE
  ELSE IsSubclass(Base(cls), of)

ACCEPTED_ERROR_RETRIES == {"ZendeskError", "RequestException"}

\* names bound in the module's global namespace
ModuleGlobals ==
  {"json", "copy", "inspect", "Union", "requests", "six", "responses",
   "urlsplit", "HTTPBasicAuth", "Iterable", "ZendeskError",
   "AuthenticationError", "RateLimitError", "ZendeskInterface",
   "ACCEPTED_ERROR_RETRIES", "ZendeskClient"}

NameDefined(name) == name \in ModuleGlobals

\* ------------------------------------------------------- the retry policy
\* A retry_on value as the setter receives it: None, or a collection with
\* integer members `codes`, class members `classes`, and `other` saying that
\* it also holds a member that is neither (a str such as '503').
RetryNone == [t |-> "none", codes |-> {}, classes |-> {}, other |-> FALSE]
RetryItems(codes, classes, other) ==
  [t |-> "items", codes |-> codes, classes |-> classes, other |-> other]

EmptyRetrySet == [codes |-> {}, classes |-> {}]

\* a validation that lets every integer through
RetryOnValid_AnyCode(value) ==
  IF value.t = "none" THEN TRUE
  ELSE /\ \A c \in value.classes :
            \E a \in ACCEPTED_ERROR_RETRIES : IsSubclass(c, a)
       /\ ~value.other

\* _validate of every member: TRUE when no ValueError is raised
RetryOnValid(value) ==
  IF value.t = "none" THEN TRUE
  ELSE /\ \A c \in value.classes :
            \E a \in ACCEPTED_ERROR_RETRIES : IsSubclass(c, a)
       /\ \A n \in value.codes : ~(200 <= n /\ n < 300)
       /\ ~value.other

\* the set the setter stores
RetryOnStored(value) ==
  IF value.t = "none" THEN EmptyRetrySet
  ELSE [codes |-> value.codes, classes |-> value.classes]

\* truth value of the retry_on argument
RetryOnTruthy(value) ==
  /\ value.t # "none"
  /\ (value.codes # {} \/ value.classes # {} \/ value.other)

\* the max_retries setter accepts the non-negative integers
MaxRetriesValid(value) == value >= 0

\* --------------------------------------------------------- HTTP responses
Response(status, retry_after, content_type, location, content) ==
  [t |-> "response", status_code |-> status,
   headers |-> [retry_after |-> retry_after, content_type |-> content_type,
                location |-> location],
   content |-> content]

\* response.content.strip() as a condition
StripTruthy(content) == content.k \notin {"empty", "blank"}

\* response.json(): the decoded value, or ValueError
JsonOk(resp) == resp.content.k = "json"
JsonValue(resp) == resp.content.val

\* float(x): defined on numbers and on numeric text
FloatOk(x) == x.t \in {"int", "numstr"}

\* http.client.responses: the reason phrase of a status code
StatusTextKnown(code) == code \in {200, 201, 204, 401, 404, 422, 429, 500, 503}
StatusText(code) ==
  CASE code = 200 -> PyStr(<<"OK">>)
    [] code = 201 -> PyStr(<<"Created">>)
    [] code = 204 -> PyStr(<<"No", "Content">>)
    [] code = 422 -> PyStr(<<"Unprocessable", "Entity">>)
    [] OTHER -> PyStr(<<"Error">>)

\* --------------------------------------------------------- _handle_retry
Retry(sleep) == [raise |-> FALSE, exc |-> NoExc, sleep |-> sleep]
Reraise(e) == [raise |-> TRUE, exc |-> e, sleep |-> 0]

\* the delay of `time.sleep(float(resp.headers.get('Retry-After', 0)))`
RetryAfterSleep(resp) ==
  LET h == resp.headers.retry_after
      retry_after == IF h.t = "none" THEN PyInt(0) ELSE h
  IN  IF ~FloatOk(retry_after) THEN Retry(0)
      ELSE IF ~NameDefined("time") THEN Reraise(Exc("NameError", 0))
      ELSE IF retry_after.v < 0 THEN Retry(0)
      ELSE Retry(retry_after.v)

\* the filter on the retry set: TRUE when the exception is raised again
NotRetryable(retry_on, e) ==
  IF IsSubclass(e.cls, "ZendeskError")
  THEN e.cls \notin retry_on.classes /\ e.code \notin retry_on.codes
  ELSE ~(\E c \in retry_on.classes : IsSubclass(e.cls, c))

\* _handle_retry that answers True whatever the exception is
HandleRetry_AlwaysTrue(retry_on, e, resp) == Retry(0)

\* _handle_retry(resp), called while handling exception e
HandleRetry(retry_on, e, resp) ==
  IF ~NameDefined("sys") THEN Reraise(Exc("NameError", 0))
  ELSE IF NotRetryable(retry_on, e) THEN Reraise(e)
  ELSE IF resp.t # "none" THEN RetryAfterSleep(resp)
  ELSE Retry(0)

\* ------------------------------------------------- classifying one answer
\* the status test without its 422 exemption
IsErrorStatus_No422(code) == ~(200 <= code /\ code < 300)

\* `not 200 <= code < 300 and code != 422`
IsErrorStatus(code) == ~(200 <= code /\ code < 300) /\ code # 422

\* the exception raised for an error status
StatusError(code) ==
  IF code = 401 THEN Exc("AuthenticationError", code)
  ELSE IF code = 429 THEN Exc("RateLimitError", code)
  ELSE Exc("ZendeskError", code)

\* the budget test counting retries instead of attempts
WithinBudget_OffByOne(request_count, max_retries) ==
  request_count <= max_retries + 1

\* `request_count <= self.max_retries`
WithinBudget(request_count, max_retries) == request_count <= max_retries

\* the except blocks without their `else: raise`
OnFailure_NoRaise(request_count, max_retries, retry_on, e, resp) ==
  IF WithinBudget(request_count, max_retries)
  THEN HandleRetry(retry_on, e, resp)
  ELSE Retry(0)

\* the except blocks of the loop: retry (continue) or raise
OnFailure(request_count, max_retries, retry_on, e, resp) ==
  IF WithinBudget(request_count, max_retries)
  THEN HandleRetry(retry_on, e, resp)
  ELSE Reraise(e)

\* ------------------------------------------------- accepting one page
Ok(value) == [raise |-> FALSE, exc |-> NoExc, value |-> value]
Raise(cls) == [raise |-> TRUE, exc |-> Exc(cls, 0), value |-> PyNone]

\* content.get('next_page', None) on the decoded body
NextPage(content) ==
  IF content.t # "dict" THEN Raise("AttributeError")
  ELSE Ok([content |-> content, url |-> DictGet(content, "next_page")])

\* a decoding whose last branch leaves the url as it was
Decode_OtherKeepsUrl(resp, url) ==
  IF ~StripTruthy(resp.content)
  THEN Ok([content |-> resp.content, url |-> PyNone])
  ELSE IF resp.headers.content_type.t = "none" THEN Raise("KeyError")
  ELSE IF Contains(resp.headers.content_type.v, "json")
  THEN IF JsonOk(resp) THEN NextPage(JsonValue(resp)) ELSE Raise("ValueError")
  ELSE IF Contains(resp.headers.content_type.v, "text")
  THEN IF JsonOk(resp) THEN NextPage(JsonValue(resp))
       ELSE Ok([content |-> resp.content, url |-> url])
  ELSE Ok([content |-> resp.content, url |-> url])

\* a decoding that falls back to the raw body in the JSON branch as well
Decode_JsonFallsBack(resp, url) ==
  IF ~StripTruthy(resp.content)
  THEN Ok([content |-> resp.content, url |-> PyNone])
  ELSE IF resp.headers.content_type.t = "none" THEN Raise("KeyError")
  ELSE IF Contains(resp.headers.content_type.v, "json")
  THEN IF JsonOk(resp) THEN NextPage(JsonValue(resp))
       ELSE Ok([content |-> resp.content, url |-> PyNone])
  ELSE IF Contains(resp.headers.content_type.v, "text")
  THEN IF JsonOk(resp) THEN NextPage(JsonValue(resp))
       ELSE Ok([content |-> resp.content, url |-> url])
  ELSE Ok([content |-> resp.content, url |-> PyNone])

\* the decoding branches: the page's content and the next url
Decode(resp, url) ==
  IF ~StripTruthy(resp.content)
  THEN Ok([content |-> resp.content, url |-> PyNone])
  ELSE IF resp.headers.content_type.t = "none" THEN Raise("KeyError")
  ELSE IF Contains(resp.headers.content_type.v, "json")
  THEN IF JsonOk(resp) THEN NextPage(JsonValue(resp)) ELSE Raise("ValueError")
  ELSE IF Contains(resp.headers.content_type.v, "text")
  THEN IF JsonOk(resp) THEN NextPage(JsonValue(resp))
       ELSE Ok([content |-> resp.content, url |-> url])
  ELSE Ok([content |-> resp.content, url |-> PyNone])

\* the record appended for complete_response
FullRecord(resp, content) ==
  PyDict(<< [k |-> "response", v |-> resp],
            [k |-> "content", v |-> content],
            [k |-> "status", v |-> PyInt(resp.status_code)] >>)

\* a default selection that prefers the body to the Location header
Capture_BodyFirst(resp, content, complete_response, retval) ==
  IF complete_response THEN Ok(FullRecord(resp, content))
  ELSE IF retval = "content" THEN Ok(content)
  ELSE IF retval = "code" THEN Ok(PyInt(resp.status_code))
  ELSE IF retval = "location" THEN Ok(resp.headers.location)
  ELSE IF retval = "headers" THEN Ok([t |-> "headers", v |-> resp.headers])
  ELSE IF Truthy(content) THEN Ok(content)
  ELSE IF Truthy(resp.headers.location) THEN Ok(resp.headers.location)
  ELSE IF StatusTextKnown(resp.status_code)
  THEN Ok(StatusText(resp.status_code))
  ELSE Raise("KeyError")

\* the value appended to results for one page
Capture(resp, content, complete_response, retval) ==
  IF complete_response THEN Ok(FullRecord(resp, content))
  ELSE IF retval = "content" THEN Ok(content)
  ELSE IF retval = "code" THEN Ok(PyInt(resp.status_code))
  ELSE IF retval = "location" THEN Ok(resp.headers.location)
  ELSE IF retval = "headers" THEN Ok([t |-> "headers", v |-> resp.headers])
  ELSE IF Truthy(resp.headers.location) THEN Ok(resp.headers.location)
  ELSE IF Truthy(content) THEN Ok(content)
  ELSE IF StatusTextKnown(resp.status_code)
  THEN Ok(StatusText(resp.status_code))
  ELSE Raise("KeyError")

\* the incremental-export rule with the page of 1000 items taken as the last
Cursor_AtMost1000(url, content) ==
  IF url.t = "none" THEN Ok(url)
  ELSE IF url.t # "str" THEN Raise("TypeError")
  ELSE IF ~Contains(url.v, "incremental") THEN Ok(url)
  ELSE IF content.t # "dict" THEN Raise("AttributeError")
  ELSE IF DictGet(content, "count").t # "int" THEN Raise("TypeError")
  ELSE IF DictGet(content, "count").v <= 1000 THEN Ok(PyNone)
  ELSE Ok(url)

\* the incremental-export rule on the next url
Cursor(url, content) ==
  IF url.t = "none" THEN Ok(url)
  ELSE IF url.t # "str" THEN Raise("TypeError")
  ELSE IF ~Contains(url.v, "incremental") THEN Ok(url)
  ELSE IF content.t # "dict" THEN Raise("AttributeError")
  ELSE IF DictGet(content, "count").t # "int" THEN Raise("TypeError")
  ELSE IF DictGet(content, "count").v < 1000 THEN Ok(PyNone)
  ELSE Ok(url)

\* the part of one loop iteration after the status check
AcceptPage(resp, url, complete_response, retval) ==
  LET d == Decode(resp, url) IN
  IF d.raise THEN d
  ELSE LET c == Capture(resp, d.value.content, complete_response, retval) IN
       IF c.raise THEN c
       ELSE LET n == Cursor(d.value.url, d.value.content) IN
            IF n.raise THEN n
            ELSE Ok([captured |-> c.value, url |-> n.value])

\* ------------------------------------------------ _process_response_data
Hashable(x) == x.t \in {"none", "int", "str", "bytes", "numstr"}

SeqRange(s) == {s[i] : i \in DOMAIN s}

HasKey(pairs, key) == \E i \in DOMAIN pairs : pairs[i].k = key

\* d[key] = value on an insertion-ordered dict
DictSet(pairs, key, value) ==
  IF HasKey(pairs, key)
  THEN [i \in DOMAIN pairs |->
          IF pairs[i].k = key THEN [k |-> key, v |-> value] ELSE pairs[i]]
  ELSE Append(pairs, [k |-> key, v |-> value])

\* what _process_response_data gives: the value it returns or the exception
\* it raises, and the pages of its argument as it leaves them
Normalised(value, pages) ==
  [raise |-> FALSE, exc |-> NoExc, value |-> value, pages |-> pages]
NotNormalised(cls, pages) ==
  [raise |-> TRUE, exc |-> Exc(cls, 0), value |-> PyNone, pages |-> pages]

\* a key loop in which a value that is not a list never replaces the value
\* an earlier page left under its key
RECURSIVE MergeDict_KeepFirst(_, _, _, _, _)
MergeDict_KeepFirst(combined, owner, pages, i, pairs) ==
  IF pairs = <<>>
  THEN [raise |-> FALSE, combined |-> combined, owner |-> owner, pages |-> pages]
  ELSE LET key == Head(pairs).k
           val == Head(pairs).v
       IN  IF val.t = "list" /\ HasKey(combined, key)
           THEN IF PairsGet(combined, key).t # "list"
                THEN [raise |-> TRUE, combined |-> combined, owner |-> owner,
                      pages |-> pages]
                ELSE LET grown == PyList(PairsGet(combined, key).v \o val.v)
                         o == PairsGet(owner, key).v
                     IN  MergeDict_KeepFirst(
                           DictSet(combined, key, grown), owner,
                           [pages EXCEPT ![o] = PyDict(DictSet(pages[o].v, key, grown))],
                           i, Tail(pairs))
           ELSE IF HasKey(combined, key)
           THEN MergeDict_KeepFirst(combined, owner, pages, i, Tail(pairs))
           ELSE MergeDict_KeepFirst(DictSet(combined, key, val),
                                    DictSet(owner, key, PyInt(i)), pages, i,
                                    Tail(pairs))

\* The `for k in result.keys()` loop over mapping page i.
\* `combined_dict_results[k] = v` stores the list object of the page it came
\* from (owner[k] is that page), and `combined_dict_results[k].extend(v)`
\* grows that object in place; extend on a value that is not a list raises
\* AttributeError, which `except KeyError` does not catch.
RECURSIVE MergeDict(_, _, _, _, _)
MergeDict(combined, owner, pages, i, pairs) ==
  IF pairs = <<>>
  THEN [raise |-> FALSE, combined |-> combined, owner |-> owner, pages |-> pages]
  ELSE LET key == Head(pairs).k
           val == Head(pairs).v
       IN  IF val.t = "list" /\ HasKey(combined, key)
           THEN IF PairsGet(combined, key).t # "list"
                THEN [raise |-> TRUE, combined |-> combined, owner |-> owner,
                      pages |-> pages]
                ELSE LET grown == PyList(PairsGet(combined, key).v \o val.v)
                         o == PairsGet(owner, key).v
                     IN  MergeDict(
                           DictSet(combined, key, grown), owner,
                           [pages EXCEPT ![o] = PyDict(DictSet(pages[o].v, key, grown))],
                           i, Tail(pairs))
           ELSE MergeDict(DictSet(combined, key, val),
                          DictSet(owner, key, PyInt(i)), pages, i, Tail(pairs))

\* the `for result in results` loop and the returns after it
RECURSIVE MergeLoop(_, _, _, _, _)
MergeLoop(pages, i, combined_dict_results, owner, combined_list_results) ==
  IF i > Len(pages)
  THEN IF combined_list_results # <<>> /\ combined_dict_results # <<>>
       THEN Normalised(PyList(pages), pages)
       ELSE IF combined_dict_results # <<>>
       THEN Normalised(PyDict(combined_dict_results), pages)
       ELSE IF combined_list_results # <<>>
       THEN Normalised(PyList(combined_list_results), pages)
       ELSE Normalised(PyList(pages), pages)
  ELSE IF pages[i].t = "list"
  THEN MergeLoop(pages, i + 1, combined_dict_results, owner,
                 combined_list_results \o pages[i].v)
  ELSE IF pages[i].t = "dict"
  THEN LET m == MergeDict(combined_dict_results, owner, pages, i, pages[i].v) IN
       IF m.raise THEN NotNormalised("AttributeError", m.pages)
       ELSE MergeLoop(m.pages, i + 1, m.combined, m.owner, combined_list_results)
  ELSE Normalised(PyList(pages), pages)

\* a normalisation without the shortcut for a single page
ProcessResponseData_NoSingleShortcut(results, get_all_pages, complete_response) ==
  IF get_all_pages /\ complete_response
  THEN Normalised(PyList(results), results)
  ELSE IF \A i \in DOMAIN results : Hashable(results[i])
  THEN IF Cardinality(SeqRange(results)) = 1
       THEN Normalised(results[1], results)
       ELSE Normalised(PyList(results), results)
  ELSE MergeLoop(results, 1, <<>>, <<>>, <<>>)

\* a normalisation that is skipped whenever complete_response is set
ProcessResponseData_FullAlwaysList(results, get_all_pages, complete_response) ==
  IF complete_response THEN Normalised(PyList(results), results)
  ELSE IF Len(results) = 1 THEN Normalised(results[1], results)
  ELSE IF \A i \in DOMAIN results : Hashable(results[i])
  THEN IF Cardinality(SeqRange(results)) = 1
       THEN Normalised(results[1], results)
       ELSE Normalised(PyList(results), results)
  ELSE MergeLoop(results, 1, <<>>, <<>>, <<>>)

\* a normalisation that takes the first of any hashable pages, equal or not
ProcessResponseData_FirstOfHashables(results, get_all_pages, complete_response) ==
  IF get_all_pages /\ complete_response
  THEN Normalised(PyList(results), results)
  ELSE IF Len(results) = 1 THEN Normalised(results[1], results)
  ELSE IF \A i \in DOMAIN results : Hashable(results[i])
  THEN Normalised(results[1], results)
  ELSE MergeLoop(results, 1, <<>>, <<>>, <<>>)

ProcessResponseData(results, get_all_pages, complete_response) ==
  IF get_all_pages /\ complete_response
  THEN Normalised(PyList(results), results)
  ELSE IF Len(results) = 1 THEN Normalised(results[1], results)
  ELSE IF \A i \in DOMAIN results : Hashable(results[i])
  THEN IF Cardinality(SeqRange(results)) = 1
       THEN Normalised(results[1], results)
       ELSE Normalised(PyList(results), results)
  ELSE MergeLoop(results, 1, <<>>, <<>>, <<>>)

\* ----------------------------------------------------------------- inputs
\* strings as token sequences
zd_url == <<"https:", "acme.zendesk.com">>
TicketsPath == <<"api", "v2", "tickets">>
NextTickets == PyStr(<<"https:", "acme.zendesk.com", "api", "v2", "tickets", "page=2">>)
NextIncremental ==
  PyStr(<<"https:", "acme.zendesk.com", "api", "v2", "incremental", "tickets", "start_time=2">>)

JsonType == PyStr(<<"application", "json">>)
TextType == PyStr(<<"text", "plain">>)
OctetType == PyStr(<<"application", "octet-stream">>)

\* a decoded page body with its pagination fields
Page(next_page, count) ==
  PyDict(<< [k |-> "next_page", v |-> next_page], [k |-> "count", v |-> count] >>)
PageNoCount(next_page) == PyDict(<< [k |-> "next_page", v |-> next_page] >>)

JsonBytes(val) == PyBytes("json", val)
EmptyBytes == PyBytes("empty", PyNone)
GarbageBytes == PyBytes("garbage", PyNone)

\* retry_on values given to the client's setter
ClientRetryOn ==
  { RetryNone,
    RetryItems({401, 422, 429, 500}, {}, FALSE),
    RetryItems({}, {"ZendeskError", "RequestException"}, FALSE),
    RetryItems({200}, {}, FALSE),
    RetryItems({}, {"ValueError"}, FALSE),
    RetryItems({}, {}, TRUE) }

\* max_retries values given to the client's setter
ClientMaxRetries == -1 .. MaxRetriesBound

\* the retry_on and max_retries arguments of a call
PolicyArgs ==
  { [retry_on |-> RetryNone, max_retries |-> 0],
    [retry_on |-> RetryItems({429, 503}, {"RateLimitError"}, FALSE),
     max_retries |-> MaxRetriesBound],
    [retry_on |-> RetryItems({200}, {}, FALSE), max_retries |-> MaxRetriesBound],
    [retry_on |-> RetryItems({429, 503}, {"RateLimitError"}, FALSE),
     max_retries |-> -1] }

\* the complete_response and retval arguments of a call
CaptureArgs ==
  { [complete_response |-> FALSE, retval |-> "None"],
    [complete_response |-> FALSE, retval |-> "code"],
    [complete_response |-> TRUE, retval |-> "None"] }

RequestChoices ==
  { [method |-> "GET", data |-> PyNone],
    [method |-> "POST",
     data |-> PyDict(<< [k |-> "ticket", v |-> PyStr(<<"subject">>)] >>)] }

\* a non-empty query argument of a call
PageQuery == PyDict(<< [k |-> "page", v |-> PyInt(2)] >>)

\* calls without a query, and calls on the stored policy with one
CallChoices ==
  { [ path |-> TicketsPath, query |-> PyNone, request |-> r,
      get_all_pages |-> g,
      complete_response |-> c.complete_response, retval |-> c.retval,
      retry_on |-> p.retry_on, max_retries |-> p.max_retries ] :
      r \in RequestChoices, g \in BOOLEAN, c \in CaptureArgs, p \in PolicyArgs }
  \cup
  { [ path |-> TicketsPath, query |-> PageQuery,
      request |-> [method |-> "GET", data |-> PyNone], get_all_pages |-> g,
      complete_response |-> FALSE, retval |-> "None",
      retry_on |-> RetryNone, max_retries |-> 0 ] : g \in BOOLEAN }

\* network-level failures of requests.request
NetworkFailures == { Exc("ConnectionError", 0) }

\* answers with an error status
ErrorResponses ==
  { Response(code, PyNone, JsonType, PyNone, EmptyBytes) :
      code \in {401, 429, 500} }
  \cup { Response(429, PyNumStr(2), JsonType, PyNone, EmptyBytes),
         Response(503, PyStr(<<"soon">>), JsonType, PyNone, EmptyBytes) }

\* answers with a 2xx or 422 status
SuccessResponses ==
  { Response(200, PyNone, JsonType, PyNone, JsonBytes(body)) :
      body \in { Page(PyNone, PyInt(1)), Page(NextTickets, PyInt(100)),
                 Page(NextIncremental, PyInt(500)),
                 Page(NextIncremental, PyInt(1000)),
                 Page(NextIncremental, PyInt(1500)) } }
  \cup { Response(422, PyNone, JsonType, PyNone, JsonBytes(Page(NextTickets, PyInt(100)))),
         Response(200, PyNone, JsonType, PyNone, JsonBytes(PageNoCount(NextIncremental))),
         Response(200, PyNone, JsonType, PyNone, JsonBytes(PyList(<<PyInt(1)>>))),
         Response(200, PyNone, JsonType, PyNone, GarbageBytes),
         Response(200, PyNone, TextType, PyNone, GarbageBytes),
         Response(200, PyNone, OctetType, PyNone, JsonBytes(Page(NextTickets, PyInt(100)))),
         Response(200, PyNone, PyNone, PyNone, GarbageBytes),
         Response(201, PyNone, JsonType, PyStr(<<"https:", "acme.zendesk.com", "new">>),
                  JsonBytes(Page(PyNone, PyInt(1)))),
         Response(204, PyNone, PyNone, PyNone, EmptyBytes) }

Responses == ErrorResponses \cup SuccessResponses

\* json.loads(json.dumps(data)): tuples come back as lists
RECURSIVE JsonRoundTrip(_)
JsonRoundTrip(x) ==
  CASE x.t \in {"list", "tuple"} ->
         PyList([i \in DOMAIN x.v |-> JsonRoundTrip(x.v[i])])
    [] x.t = "dict" ->
         PyDict([i \in DOMAIN x.v |->
                   [k |-> x.v[i].k, v |-> JsonRoundTrip(x.v[i].v)]])
    [] OTHER -> x

\* ------------------------------------------------------------------ state
VARIABLES
  self_retry_on,      \* ZendeskClient._retry_on
  self_max_retries,   \* ZendeskClient._max_retries
  pc,                 \* "idle", "loop" (inside the while loop), "returned", "raised"
  call,               \* the arguments of the call in progress
  saved,              \* _retry_on/_max_retries saved by _process_single_api_call
  url,                \* loop local: target of the next request
  payload,            \* loop local: JSON payload
  request_count,      \* loop local
  results,            \* loop local
  response,           \* loop local
  returned,           \* the value the caller received
  error,              \* the exception the caller received
  clock,              \* time spent in time.sleep
  sent,               \* the HTTP requests issued by the call, in order
  outcome,            \* what the transport gave for the latest request
  data,               \* the argument of _process_response_data, as passed
  threads             \* the locals of calls that run on the client at once

vars == << self_retry_on, self_max_retries, pc, call, saved, url, payload,
           request_count, results, response, returned, error, clock, sent,
           outcome, data, threads >>

NoCall ==
  [ path |-> <<>>, query |-> PyNone,
    request |-> [method |-> "GET", data |-> PyNone],
    get_all_pages |-> FALSE, complete_response |-> FALSE,
    retry_on |-> RetryNone, max_retries |-> 0, retval |-> "None" ]
NotSaved == [active |-> FALSE, retry_on |-> EmptyRetrySet, max_retries |-> 0]
Unset == [t |-> "unset"]
NoOutcome == [t |-> "none"]

\* ZendeskClient(zd_url, ...) with the default retry_on=None, max_retries=0;
\* other policies are installed through the setters, as __init__ does
Init ==
  /\ self_retry_on = RetryOnStored(RetryNone)
  /\ self_max_retries = 0
  /\ pc = "idle"
  /\ call = NoCall
  /\ saved = NotSaved
  /\ url = PyNone
  /\ payload = PyNone
  /\ request_count = 0
  /\ results = <<>>
  /\ response = PyNone
  /\ returned = Unset
  /\ error = NoExc
  /\ clock = 0
  /\ sent = <<>>
  /\ outcome = NoOutcome
  /\ data = <<>>
  /\ threads = <<>>

\* ---------------------------------------------------------------- actions
\* retry_on property setter, on a client that is not inside a call
SetRetryOn(value) ==
  /\ pc = "idle"
  /\ IF RetryOnValid(value)
     THEN self_retry_on' = RetryOnStored(value) /\ error' = NoExc
     ELSE self_retry_on' = self_retry_on /\ error' = Exc("ValueError", 0)
  /\ UNCHANGED << self_max_retries, pc, call, saved, url, payload,
                  request_count, results, response, returned, clock, sent,
                  outcome, data, threads >>

\* max_retries property setter, on a client that is not inside a call
SetMaxRetries(value) ==
  /\ pc = "idle"
  /\ IF MaxRetriesValid(value)
     THEN self_max_retries' = value /\ error' = NoExc
     ELSE self_max_retries' = self_max_retries /\ error' = Exc("ValueError", 0)
  /\ UNCHANGED << self_retry_on, pc, call, saved, url, payload,
                  request_count, results, response, returned, clock, sent,
                  outcome, data, threads >>

\* the locals of _process_multiple_api_calls_with_retry before its loop
EnterLoop(a) ==
  /\ pc' = "loop"
  /\ url' = PyStr(zd_url \o a.path)
  /\ payload' = JsonRoundTrip(a.request.data)
  /\ request_count' = 0
  /\ results' = <<>>
  /\ response' = PyNone
  /\ returned' = Unset
  /\ error' = NoExc
  /\ clock' = 0
  /\ sent' = <<>>
  /\ outcome' = NoOutcome

\* call_zendeskapi up to the first request: _process_single_api_call sets
\* the client's policy from the arguments and calls call_zendeskapi again
\* without them, or returns None and the loop runs on the stored policy
Call(a) ==
  /\ pc = "idle"
  /\ call' = a
  /\ IF RetryOnTruthy(a.retry_on) /\ a.max_retries # 0
     THEN IF RetryOnValid(a.retry_on) /\ MaxRetriesValid(a.max_retries)
          THEN /\ saved' = [active |-> TRUE, retry_on |-> self_retry_on,
                            max_retries |-> self_max_retries]
               /\ self_retry_on' = RetryOnStored(a.retry_on)
               /\ self_max_retries' = a.max_retries
               /\ EnterLoop(a)
          ELSE \* the setter raised; the finally block restored both fields
               /\ pc' = "raised"
               /\ error' = Exc("ValueError", 0)
               /\ returned' = Unset
               /\ saved' = NotSaved
               /\ url' = PyNone
               /\ payload' = PyNone
               /\ request_count' = 0
               /\ results' = <<>>
               /\ response' = PyNone
               /\ clock' = 0
               /\ sent' = <<>>
               /\ outcome' = NoOutcome
               /\ UNCHANGED << self_retry_on, self_max_retries >>
     ELSE /\ saved' = NotSaved
          /\ EnterLoop(a)
          /\ UNCHANGED << self_retry_on, self_max_retries >>
  /\ UNCHANGED << data, threads >>

\* retval as the loop sees it: the inner call_zendeskapi is not given it
LoopRetval == IF saved.active THEN "None" ELSE call.retval

\* a call that ends without putting the client's policy back
Restore_Skip == UNCHANGED << self_retry_on, self_max_retries >>

\* the finally block of _process_single_api_call
Restore ==
  IF saved.active
  THEN /\ self_retry_on' = saved.retry_on
       /\ self_max_retries' = saved.max_retries
  ELSE UNCHANGED << self_retry_on, self_max_retries >>

\* requests.request(method, url, json=payload): the request and what the
\* transport gave for it, kept in the call's history
LogRequest(got) ==
  sent' = Append(sent, [url |-> url, method |-> call.request.method,
                        payload |-> payload, page |-> Len(results),
                        at |-> clock, got |-> got])

\* an exception that is swallowed: the pages gathered so far are returned
RaiseFromLoop_PartialResult(e, rc) ==
  /\ pc' = "returned"
  /\ returned' = PyList(results)
  /\ request_count' = rc
  /\ Restore
  /\ saved' = NotSaved
  /\ UNCHANGED << url, results, error, clock >>

\* an exception leaves the loop: call_zendeskapi wraps it in Exception
RaiseFromLoop(e, rc) ==
  /\ pc' = "raised"
  /\ error' = WrapException(e)
  /\ request_count' = rc
  /\ Restore
  /\ saved' = NotSaved
  /\ UNCHANGED << url, results, returned, clock >>

\* `continue` after _handle_retry returned
RetrySamePage(rc, sleep) ==
  /\ request_count' = rc
  /\ clock' = clock + sleep
  /\ UNCHANGED << self_retry_on, self_max_retries, pc, saved, url, results,
                  returned, error >>

FailureStep(rc, e, resp) ==
  LET f == OnFailure(rc, self_max_retries, self_retry_on, e, resp) IN
  IF f.raise THEN RaiseFromLoop(f.exc, rc) ELSE RetrySamePage(rc, f.sleep)

\* an accepted page that leaves request_count as it is
CountAfterPage_NoReset(rc) == rc

\* `request_count = 0` at the end of an accepted page
CountAfterPage(rc) == 0

\* a loop that goes on whenever the page left a url, paginating or not
AllRequestsComplete_IgnoreFlag(get_all_pages, next) == ~Truthy(next)

\* all_requests_complete = not (get_all_pages and url)
AllRequestsComplete(get_all_pages, next) == ~(get_all_pages /\ Truthy(next))

\* a page that replaces what was accumulated
AppendPage_Replace(res, captured) == <<captured>>

\* results.append(...) for an accepted page
AppendPage(res, captured) == Append(res, captured)

\* the loop ended: _process_response_data, then the caller gets the value
\* (the value of an inner call is never None, so the outer call_zendeskapi
\* returns it and does not run the loop a second time)
ReturnFromLoop(res, next) ==
  LET p == ProcessResponseData(res, call.get_all_pages, call.complete_response)
  IN  /\ results' = p.pages
      /\ url' = next
      /\ request_count' = CountAfterPage(request_count + 1)
      /\ clock' = clock
      /\ Restore
      /\ saved' = NotSaved
      /\ IF p.raise
         THEN pc' = "raised" /\ error' = p.exc /\ returned' = returned
         ELSE pc' = "returned" /\ returned' = p.value /\ error' = error

\* one loop iteration in which requests.request raises
ExchangeFails(e) ==
  /\ pc = "loop"
  /\ Len(sent) < MaxExchanges
  /\ LogRequest([t |-> "network", exc |-> e])
  /\ outcome' = [t |-> "network", exc |-> e]
  /\ response' = IF WithinBudget(request_count + 1, self_max_retries)
                  THEN PyNone ELSE response
  /\ FailureStep(request_count + 1, e, PyNone)
  /\ UNCHANGED << call, payload, data, threads >>

\* one loop iteration in which requests.request returns a response
ExchangeAnswers(resp) ==
  /\ pc = "loop"
  /\ Len(sent) < MaxExchanges
  /\ LogRequest(resp)
  /\ outcome' = resp
  /\ response' = resp
  /\ IF IsErrorStatus(resp.status_code)
     THEN FailureStep(request_count + 1, StatusError(resp.status_code), resp)
     ELSE LET a == AcceptPage(resp, url, call.complete_response, LoopRetval) IN
          IF a.raise
          THEN RaiseFromLoop(a.exc, request_count + 1)
          ELSE IF AllRequestsComplete(call.get_all_pages, a.value.url)
          THEN ReturnFromLoop(AppendPage(results, a.value.captured), a.value.url)
          ELSE /\ results' = AppendPage(results, a.value.captured)
               /\ url' = a.value.url
               /\ request_count' = CountAfterPage(request_count + 1)
               /\ UNCHANGED << self_retry_on, self_max_retries, pc, saved,
                               returned, error, clock >>
  /\ UNCHANGED << call, payload, data, threads >>

\* the caller took the value or the exception: the call's frame is gone
Done ==
  /\ pc \in {"returned", "raised"}
  /\ pc' = "idle"
  /\ call' = NoCall
  /\ url' = PyNone
  /\ payload' = PyNone
  /\ request_count' = 0
  /\ results' = <<>>
  /\ response' = PyNone
  /\ returned' = Unset
  /\ error' = NoExc
  /\ clock' = 0
  /\ sent' = <<>>
  /\ outcome' = NoOutcome
  /\ UNCHANGED << self_retry_on, self_max_retries, saved, data, threads >>

Next ==
  \/ \E v \in ClientRetryOn : SetRetryOn(v)
  \/ \E m \in ClientMaxRetries : SetMaxRetries(m)
  \/ Done
  \/ \E a \in CallChoices : Call(a)
  \/ \E e \in NetworkFailures : ExchangeFails(e)
  \/ \E resp \in Responses : ExchangeAnswers(resp)

Spec == Init /\ [][Next]_vars

\* ------------------------------------------------- normalisation on its own
\* _process_response_data applied to page sequences of every shape; the
\* pages of a call are separate objects, one per decoded response.
MaxPages == 3

ListOf12 == PyList(<< PyInt(1), PyInt(2) >>)
ListOf3 == PyList(<< PyInt(3) >>)
MapOf(key, value) == PyDict(<< [k |-> key, v |-> value] >>)

MergeValues ==
  { PyNone, PyInt(1), PyStr(<<"x">>),
    PyList(<<>>), ListOf12, ListOf3,
    PyDict(<<>>), MapOf("a", ListOf12), MapOf("a", ListOf3),
    MapOf("a", PyInt(5)), MapOf("a", PyInt(7)), MapOf("y", PyInt(1)) }

PageSeqs == UNION { [1 .. n -> MergeValues] : n \in 1 .. MaxPages }

\* a call that is about to normalise its pages: one page without
\* get_all_pages, one or more with it
MergeInit ==
  /\ self_retry_on = RetryOnStored(RetryNone)
  /\ self_max_retries = 0
  /\ pc = "merge"
  /\ \E g \in BOOLEAN : call = [NoCall EXCEPT !.get_all_pages = g]
  /\ saved = NotSaved
  /\ url = PyNone
  /\ payload = PyNone
  /\ request_count = 0
  /\ data \in PageSeqs
  /\ call.get_all_pages \/ Len(data) = 1
  /\ results = data
  /\ response = PyNone
  /\ returned = Unset
  /\ error = NoExc
  /\ clock = 0
  /\ sent = <<>>
  /\ outcome = NoOutcome
  /\ threads = <<>>

\* `return self._process_response_data(results, ...)`: its exceptions reach
\* the caller as they are
Normalize ==
  /\ pc = "merge"
  /\ LET p == ProcessResponseData(results, call.get_all_pages,
                                  call.complete_response)
     IN  /\ IF p.raise
            THEN pc' = "raised" /\ error' = p.exc /\ returned' = returned
            ELSE pc' = "returned" /\ returned' = p.value /\ error' = error
         /\ results' = p.pages
  /\ UNCHANGED << self_retry_on, self_max_retries, call, saved, url, payload,
                  request_count, response, clock, sent, outcome, data,
                  threads >>

MergeNext == Normalize

MergeSpec == MergeInit /\ [][MergeNext]_vars

\* ------------------------------------------- two calls on one client at once
\* Two threads each run call_zendeskapi with a retry_on and a max_retries of
\* their own on the same client. A step is one statement of
\* _process_single_api_call, or one request of the loop together with the
\* except block that handles its failure.
Threads == {1, 2}

\* the policy the client holds before the calls
SharedPolicy ==
  [retry_on |-> RetryItems({401, 500}, {}, FALSE), max_retries |-> 1]

\* the retry_on and max_retries arguments of the two calls
ThreadPolicy(t) ==
  IF t = 1
  THEN [retry_on |-> RetryItems({429, 503}, {"RateLimitError"}, FALSE),
        max_retries |-> MaxRetriesBound]
  ELSE [retry_on |-> RetryItems({}, {"RequestException"}, FALSE),
        max_retries |-> MaxRetriesBound + 1]

\* what one request of a thread may give: a page that ends the call, or a
\* failure
Answered == [t |-> "answered"]
ThreadOutcomes ==
  { Answered }
  \cup { [t |-> "failed", exc |-> e, resp |-> PyNone] : e \in NetworkFailures }
  \cup { [t |-> "failed", exc |-> StatusError(r.status_code), resp |-> r] :
           r \in { x \in ErrorResponses : x.status_code \in {429, 500} } }

ThreadStart(t) ==
  [ pc |-> "save_retry_on",
    retry_on |-> ThreadPolicy(t).retry_on,
    max_retries |-> ThreadPolicy(t).max_retries,
    kept_retry_on |-> EmptyRetrySet,
    kept_max_retries |-> 0,
    request_count |-> 0,
    budget_read |-> -1,
    error |-> NoExc ]

ConcInit ==
  /\ self_retry_on = RetryOnStored(SharedPolicy.retry_on)
  /\ self_max_retries = SharedPolicy.max_retries
  /\ threads = [t \in Threads |-> ThreadStart(t)]
  /\ pc = "idle"
  /\ call = NoCall
  /\ saved = NotSaved
  /\ url = PyNone
  /\ payload = PyNone
  /\ request_count = 0
  /\ results = <<>>
  /\ response = PyNone
  /\ returned = Unset
  /\ error = NoExc
  /\ clock = 0
  /\ sent = <<>>
  /\ outcome = NoOutcome
  /\ data = <<>>

NotOfThreads ==
  << pc, call, saved, url, payload, request_count, results, response,
     returned, error, clock, sent, outcome, data >>

\* `_retry_on = self._retry_on`
KeepRetryOn(t) ==
  /\ threads[t].pc = "save_retry_on"
  /\ threads' = [threads EXCEPT ![t].kept_retry_on = self_retry_on,
                                ![t].pc = "save_max_retries"]
  /\ UNCHANGED << self_retry_on, self_max_retries, NotOfThreads >>

\* `_max_retries = self._max_retries`
KeepMaxRetries(t) ==
  /\ threads[t].pc = "save_max_retries"
  /\ threads' = [threads EXCEPT ![t].kept_max_retries = self_max_retries,
                                ![t].pc = "set_retry_on"]
  /\ UNCHANGED << self_retry_on, self_max_retries, NotOfThreads >>

\* `self.retry_on = retry_on`; a ValueError goes to the finally block
InstallRetryOn(t) ==
  /\ threads[t].pc = "set_retry_on"
  /\ IF RetryOnValid(threads[t].retry_on)
     THEN /\ self_retry_on' = RetryOnStored(threads[t].retry_on)
          /\ threads' = [threads EXCEPT ![t].pc = "set_max_retries"]
     ELSE /\ self_retry_on' = self_retry_on
          /\ threads' = [threads EXCEPT ![t].pc = "restore_retry_on",
                                        ![t].error = Exc("ValueError", 0)]
  /\ UNCHANGED << self_max_retries, NotOfThreads >>

\* `self.max_retries = max_retries`
InstallMaxRetries(t) ==
  /\ threads[t].pc = "set_max_retries"
  /\ IF MaxRetriesValid(threads[t].max_retries)
     THEN /\ self_max_retries' = threads[t].max_retries
          /\ threads' = [threads EXCEPT ![t].pc = "loop"]
     ELSE /\ self_max_retries' = self_max_retries
          /\ threads' = [threads EXCEPT ![t].pc = "restore_retry_on",
                                        ![t].error = Exc("ValueError", 0)]
  /\ UNCHANGED << self_retry_on, NotOfThreads >>

\* one request of the inner call's loop: an answer ends the call; a failure
\* is handled under whatever policy the client holds at that moment
ThreadExchange(t, o) ==
  /\ threads[t].pc = "loop"
  /\ threads[t].request_count < MaxExchanges
  /\ IF o.t = "answered"
     THEN threads' = [threads EXCEPT ![t].pc = "restore_retry_on",
                                     ![t].request_count = 0]
     ELSE LET rc == threads[t].request_count + 1
              f == OnFailure(rc, self_max_retries, self_retry_on, o.exc, o.resp)
          IN  threads' =
                [threads EXCEPT
                   ![t].request_count = rc,
                   ![t].budget_read = self_max_retries,
                   ![t].error = IF f.raise THEN WrapException(f.exc) ELSE NoExc,
                   ![t].pc = IF f.raise THEN "restore_retry_on" ELSE "loop"]
  /\ UNCHANGED << self_retry_on, self_max_retries, NotOfThreads >>

\* finally: `self._retry_on = _retry_on`
PutBackRetryOn(t) ==
  /\ threads[t].pc = "restore_retry_on"
  /\ self_retry_on' = threads[t].kept_retry_on
  /\ threads' = [threads EXCEPT ![t].pc = "restore_max_retries"]
  /\ UNCHANGED << self_max_retries, NotOfThreads >>

\* finally: `self._max_retries = _max_retries`
PutBackMaxRetries(t) ==
  /\ threads[t].pc = "restore_max_retries"
  /\ self_max_retries' = threads[t].kept_max_retries
  /\ threads' = [threads EXCEPT ![t].pc = "done"]
  /\ UNCHANGED << self_retry_on, NotOfThreads >>

ConcNext ==
  \E t \in Threads :
    \/ KeepRetryOn(t)
    \/ KeepMaxRetries(t)
    \/ InstallRetryOn(t)
    \/ InstallMaxRetries(t)
    \/ \E o \in ThreadOutcomes : ThreadExchange(t, o)
    \/ PutBackRetryOn(t)
    \/ PutBackMaxRetries(t)

ConcSpec == ConcInit /\ [][ConcNext]_vars

\* --------------------------------------------------- OpenAiClient.send_prompt
\* One send_prompt call on an OpenAiClient: `call` holds its arguments,
\* `outcome` what the OpenAI client method did, `response` what call_openai
\* gave back to send_prompt, `returned` the dictionary send_prompt returned
\* and `error` an exception that left send_prompt.
MaxChoices == 2

\* exception classes of the openai package and the bases they derive from
OpenaiBases(cls) ==
  CASE cls = "APITimeoutError" ->
         {"APITimeoutError", "APIConnectionError", "APIError", "OpenAIError"}
    [] cls = "APIConnectionError" ->
         {"APIConnectionError", "APIError", "OpenAIError"}
    [] cls = "RateLimitError" ->
         {"RateLimitError", "APIStatusError", "APIError", "OpenAIError"}
    [] cls = "AuthenticationError" ->
         {"AuthenticationError", "APIStatusError", "APIError", "OpenAIError"}
    [] cls = "BadRequestError" ->
         {"BadRequestError", "APIStatusError", "APIError", "OpenAIError"}
    [] OTHER -> {cls}

\* isinstance(exception, openai.<base>)
IsOpenaiInstance(e, base) == base \in OpenaiBases(e.cls)

\* the dictionary of an error answer: its status code and which message
ErrorAnswer(status, message) ==
  [statusCode |-> status, body |-> [error |-> message]]

\* openai_exception_handler(exception)
OpenaiExceptionHandler(exception) ==
  IF IsOpenaiInstance(exception, "APIConnectionError")
  THEN ErrorAnswer(503, "Could not connect to OpenAI servers")
  ELSE IF IsOpenaiInstance(exception, "RateLimitError")
  THEN ErrorAnswer(429, "Too many requests")
  ELSE ErrorAnswer(400, "Error from OpenAI")

\* a chat completion with n choices
Completion(n) ==
  [t |-> "completion",
   choices |-> PyList([i \in 1 .. n |-> PyStr(<< "answer" >>)])]

\* a chat completion whose choices field is null
CompletionNullChoices == [t |-> "completion", choices |-> PyNone]

\* what client.chat.completions.create(...) may do: return a completion or
\* raise
OpenaiOutcomes ==
  { [t |-> "value", value |-> Completion(n)] : n \in 0 .. MaxChoices }
  \cup { [t |-> "value", value |-> CompletionNullChoices] }
  \cup { [t |-> "raised", exc |-> Exc(c, 0)] :
           c \in { "RateLimitError", "APIConnectionError", "APITimeoutError",
                   "AuthenticationError", "BadRequestError" } }

\* context and prompt arguments: not a string, empty, and two strings
TextArgs ==
  { PyInt(1), PyStr(<<>>), PyStr(<< "ticket" >>), PyStr(<< "ticket", "text" >>) }

ModelArgs == { "gpt-4o", "gpt-4o-mini" }

PromptInit ==
  /\ pc = "prompt"
  /\ call \in [context : TextArgs, prompt : TextArgs, model : ModelArgs]
  /\ self_retry_on = RetryOnStored(RetryNone)
  /\ self_max_retries = 0
  /\ saved = NotSaved
  /\ url = PyNone
  /\ payload = PyNone
  /\ request_count = 0
  /\ results = <<>>
  /\ response = PyNone
  /\ returned = Unset
  /\ error = NoExc
  /\ clock = 0
  /\ sent = <<>>
  /\ outcome = NoOutcome
  /\ data = <<>>
  /\ threads = <<>>

NotOfPrompt ==
  << self_retry_on, self_max_retries, call, saved, url, payload,
     request_count, results, clock, sent, data, threads >>

\* the two checks of the arguments that open send_prompt
ValidatePrompt ==
  /\ pc = "prompt"
  /\ IF call.context.t # "str" \/ call.prompt.t # "str"
     THEN /\ pc' = "returned"
          /\ returned' = ErrorAnswer(400, "must be strings")
     ELSE IF ~Truthy(call.context) \/ ~Truthy(call.prompt)
     THEN /\ pc' = "returned"
          /\ returned' = ErrorAnswer(400, "cannot be empty strings")
     ELSE /\ pc' = "calling"
          /\ returned' = returned
  /\ UNCHANGED << response, outcome, error, NotOfPrompt >>

\* call_openai: the client method's value, or for an exception the
\* dictionary of openai_exception_handler, is returned to send_prompt
CallOpenai(o) ==
  /\ pc = "calling"
  /\ outcome' = o
  /\ response' = IF o.t = "raised" THEN OpenaiExceptionHandler(o.exc)
                 ELSE o.value
  /\ pc' = "called"
  /\ UNCHANGED << returned, error, NotOfPrompt >>

\* hasattr(response, 'choices'): a dictionary has no such attribute
HasChoices(resp) == "choices" \in DOMAIN resp

\* send_prompt after call_openai returned: the test for choices, the answer
\* built from the first choice, and the except block around both
AnswerPrompt ==
  /\ pc = "called"
  /\ pc' = "returned"
  /\ returned' =
       IF HasChoices(response)
       THEN IF response.choices.t # "list"
            THEN OpenaiExceptionHandler(Exc("TypeError", 0))
            ELSE IF Len(response.choices.v) > 0
            THEN [statusCode |-> 200,
                  body |-> [openai_response |-> response.choices.v[1]]]
            ELSE ErrorAnswer(500, "No choices were returned")
       ELSE ErrorAnswer(500, "No choices were returned")
  /\ UNCHANGED << response, outcome, error, NotOfPrompt >>

PromptNext ==
  \/ ValidatePrompt
  \/ \E o \in OpenaiOutcomes : CallOpenai(o)
  \/ AnswerPrompt

PromptSpec == PromptInit /\ [][PromptNext]_vars

\* ------------------------------------------------------------ properties
\* What a call's history shows, read from the requests it sent and from what
\* the transport gave for the latest one.

InCall == pc \in {"loop", "returned", "raised"} /\ sent # <<>>
LastSent == sent[Len(sent)]

\* the retry policy the call runs under: its own arguments when both are
\* given, else the client's stored policy
CallHasPolicy == RetryOnTruthy(call.retry_on) /\ call.max_retries # 0
BudgetOfCall == IF CallHasPolicy THEN call.max_retries ELSE self_max_retries
RetrySetOfCall ==
  IF CallHasPolicy THEN RetryOnStored(call.retry_on) ELSE self_retry_on

\* requests sent for page k (the page fetched after k accepted pages)
Attempts(k) == Cardinality({i \in DOMAIN sent : sent[i].page = k})

SuccessStatus(code) == (200 <= code /\ code < 300) \/ code = 422

GotNetworkFailure == InCall /\ outcome.t = "network"
GotResponse == InCall /\ outcome.t = "response"
GotStatus(code) == GotResponse /\ outcome.status_code = code
GotErrorStatus == GotResponse /\ ~SuccessStatus(outcome.status_code)
GotFailure == GotNetworkFailure \/ GotErrorStatus

\* the latest request was for the page the call is still on
PageNotAccepted == Len(results) = LastSent.page
PageAccepted == Len(results) = LastSent.page + 1

\* the latest failure left budget for another attempt on its page
BudgetRemains == Attempts(LastSent.page) <= BudgetOfCall

\* the call goes on to request the page of the latest request again
RetriedSamePage ==
  /\ pc = "loop"
  /\ PageNotAccepted
  /\ url = LastSent.url
  /\ payload = LastSent.payload

\* the class of the exception the caller received, looking through the
\* plain Exception that call_zendeskapi wraps around it
ErrorClass ==
  IF error.cls = "Exception" THEN error.arg.cls ELSE error.cls
ErrorCode ==
  IF error.cls = "Exception" THEN error.arg.code ELSE 0

\* C1: within one logical call no page is requested more than maxRetries + 1
\* times; a failure is followed by another attempt only while the attempts
\* made on its page do not exceed maxRetries, and a failure on attempt
\* maxRetries + 1 ends the call with an error.
C1_AttemptsWithinBudget ==
  InCall =>
    /\ \A k \in 0 .. Len(sent) : Attempts(k) <= BudgetOfCall + 1
    /\ (GotFailure /\ pc = "loop") => BudgetRemains
    /\ (GotFailure /\ ~BudgetRemains) => (pc = "raised" /\ error # NoExc)

C1_Witness ==
  /\ GotFailure
  /\ Attempts(LastSent.page) = BudgetOfCall + 1
  /\ pc = "raised"

\* C2: under maxRetries = 0 the first failure of a page ends the call with
\* that failure as the error; nothing was slept and the failed request is the
\* only one sent for the page.
C2_NoRetryAtZero ==
  (GotFailure /\ BudgetOfCall = 0) =>
    /\ pc = "raised"
    /\ ErrorClass = (IF GotNetworkFailure THEN outcome.exc.cls
                     ELSE IF outcome.status_code = 401 THEN "AuthenticationError"
                     ELSE IF outcome.status_code = 429 THEN "RateLimitError"
                     ELSE "ZendeskError")
    /\ clock = 0
    /\ Attempts(LastSent.page) = 1

C2_Witness ==
  /\ GotStatus(429)
  /\ outcome.headers.retry_after = PyNumStr(2)
  /\ BudgetOfCall = 0
  /\ 429 \in RetrySetOfCall.codes
  /\ pc = "raised"

\* the exception class the loop raises for the latest failure
FailureClass ==
  IF outcome.t = "network" THEN outcome.exc.cls
  ELSE IF outcome.status_code = 401 THEN "AuthenticationError"
  ELSE IF outcome.status_code = 429 THEN "RateLimitError"
  ELSE "ZendeskError"

\* the latest failure is named by the call's retry set: its status code, its
\* exception class, or (a network failure) requests.RequestException
ListedInRetrySet ==
  \/ FailureClass \in RetrySetOfCall.classes
  \/ GotErrorStatus /\ outcome.status_code \in RetrySetOfCall.codes
  \/ GotNetworkFailure /\ "RequestException" \in RetrySetOfCall.classes

\* the delay a response asks for: its Retry-After in seconds, 0 when absent
DelayHint ==
  IF outcome.t = "response" /\ outcome.headers.retry_after.t = "numstr"
  THEN outcome.headers.retry_after.v
  ELSE 0

\* C3: a retryable failure met within budget is retried: the call is still
\* in its loop, about to send the same URL and body again, with the cursor
\* and the accumulated pages as they were.
C3_RetryKeepsRequest ==
  (GotFailure /\ ListedInRetrySet /\ BudgetRemains) =>
    /\ RetriedSamePage
    /\ LastSent.method = call.request.method
    /\ Len(results) = LastSent.page

\* C4: the attempt counter counts the requests of the current page only:
\* inside the loop it equals the number of requests sent for the page the
\* call is on, and it is 0 after every accepted page.
C4_CounterIsPerPage ==
  (pc = "loop") =>
    /\ request_count = Attempts(Len(results))
    /\ (sent # <<>> /\ PageAccepted) => request_count = 0

C4_Witness ==
  /\ pc = "loop"
  /\ GotResponse
  /\ PageAccepted
  /\ Len(results) = 2
  /\ BudgetOfCall > 0
  /\ request_count = 0

\* C5: a 401 with neither 401 nor AuthenticationError in the retry set ends
\* the call on its first attempt with AuthenticationError (status 401).
C5_Unlisted401IsAuthenticationError ==
  ( /\ GotStatus(401)
    /\ 401 \notin RetrySetOfCall.codes
    /\ "AuthenticationError" \notin RetrySetOfCall.classes ) =>
    /\ pc = "raised"
    /\ ErrorClass = "AuthenticationError"
    /\ ErrorCode = 401
    /\ Attempts(LastSent.page) = 1

\* C6: a 429 carrying Retry-After: n that is eligible for retry and within
\* budget is re-sent to the same page, no earlier than n time units after it
\* was received.
C6_RetryAfterDelaysRetry ==
  ( /\ GotStatus(429)
    /\ outcome.headers.retry_after.t = "numstr"
    /\ ListedInRetrySet
    /\ BudgetRemains ) =>
    /\ RetriedSamePage
    /\ clock >= LastSent.at + DelayHint

\* C7: every 429 is retryable whatever the retry set holds: within budget it
\* is retried on the same page after its delay hint.
C7_Every429IsRetried ==
  (GotStatus(429) /\ BudgetRemains) =>
    /\ RetriedSamePage
    /\ clock = LastSent.at + DelayHint

\* C8: a status other than 2xx, 422, 401 and 429 is followed by a retry only
\* if the status or ZendeskError is in the retry set; when neither is, the
\* call ends with an error at that response, budget or not.
C8_OtherStatusNeedsListing ==
  (GotErrorStatus /\ outcome.status_code \notin {401, 429}) =>
    LET listed == \/ outcome.status_code \in RetrySetOfCall.codes
                  \/ "ZendeskError" \in RetrySetOfCall.classes
    IN  /\ (pc = "loop") => listed
        /\ ~listed => (pc = "raised" /\ error # NoExc /\ PageNotAccepted)

C8_Witness ==
  /\ GotStatus(500)
  /\ 500 \notin RetrySetOfCall.codes
  /\ "ZendeskError" \notin RetrySetOfCall.classes
  /\ BudgetRemains
  /\ pc = "raised"

\* C9: a network failure is retried on the same page with no delay while the
\* budget lasts, and ends the call with a transport error once it is spent.
C9_NetworkFailureIsRetried ==
  GotNetworkFailure =>
    IF BudgetRemains
    THEN RetriedSamePage /\ clock = LastSent.at
    ELSE pc = "raised" /\ IsSubclass(ErrorClass, "RequestException")

C11_ErrorKeepsKindAndStatus ==
  (GotFailure /\ pc = "raised") =>
    /\ ErrorClass = FailureClass
    /\ GotErrorStatus => ErrorCode = outcome.status_code

\* the latest failure is fatal: a status other than 429 that the retry set
\* does not name, or any failure met with the page's budget spent
FatalFailure ==
  \/ GotErrorStatus /\ outcome.status_code # 429 /\ ~ListedInRetrySet
  \/ GotFailure /\ ~BudgetRemains

\* C12: a fatal failure ends the call at once with an error and no value,
\* whatever pages were accumulated before it; a call returns a value only
\* from an accepted page; and once a call has ended with an error it sends
\* no further request.
C12_FatalFailureEndsCall ==
  [][ /\ FatalFailure' =>
           (pc' = "raised" /\ error' # NoExc /\ returned' = Unset)
      /\ (pc' = "returned") =>
           (GotResponse' /\ SuccessStatus(outcome'.status_code) /\ PageAccepted')
      /\ (pc = "raised") => (pc' = "idle" /\ sent' = <<>>) ]_vars

C12_Witness ==
  /\ FatalFailure
  /\ GotStatus(401)
  /\ BudgetRemains
  /\ Len(results) = 2
  /\ pc = "raised"
  /\ returned = Unset

\* a call made with get_all_pages false accepts one page and returns, even
\* when the page names a next one
OnePageThenReturn ==
  (InCall /\ ~call.get_all_pages) =>
    /\ Len(results) <= 1
    /\ (pc = "loop") => results = <<>>
    /\ (GotResponse /\ PageAccepted) => pc = "returned"
    /\ (pc = "returned") => Len(results) = 1

\* C13: with get_all_pages false a call accepts exactly one page and then
\* returns, even when that page carries a next_page; until then a retryable
\* failure met within budget is still retried on that page.
C13_SinglePageCallStillRetries ==
  /\ OnePageThenReturn
  /\ (InCall /\ ~call.get_all_pages /\ GotFailure /\ ListedInRetrySet
        /\ BudgetRemains) => RetriedSamePage

\* what the latest response is, read from its status, headers and body
GotSuccess == GotResponse /\ SuccessStatus(outcome.status_code)
BodyIsEmpty == outcome.content.k \in {"empty", "blank"}
TypeIs(word) ==
  /\ outcome.headers.content_type.t = "str"
  /\ Contains(outcome.headers.content_type.v, word)
BodyParses == outcome.content.k = "json"
BodyIsMapping == BodyParses /\ outcome.content.val.t = "dict"
BodyNextPage == DictGet(outcome.content.val, "next_page")

\* a successful page whose body is a mapping that names a next page
PageWithCursor ==
  /\ GotSuccess
  /\ ~BodyIsEmpty
  /\ TypeIs("json") \/ TypeIs("text")
  /\ BodyIsMapping
  /\ BodyNextPage.t = "str"

\* a successful page without a cursor: an empty body, a content-type that
\* is neither JSON nor text, or a mapping whose next_page is absent or null
PageWithoutCursor ==
  /\ GotSuccess
  /\ \/ BodyIsEmpty
     \/ /\ outcome.headers.content_type.t = "str"
        /\ ~TypeIs("json")
        /\ ~TypeIs("text")
     \/ /\ TypeIs("json") \/ TypeIs("text")
        /\ BodyIsMapping
        /\ BodyNextPage.t = "none"

\* C14: in a call with get_all_pages true, the request sent after a
\* successful page goes to that page's next_page; a successful page without
\* a cursor is accepted and the call returns, and nothing is sent after.
C14_NextRequestFollowsCursor ==
  [][ /\ ( /\ call.get_all_pages
           /\ pc = "loop"
           /\ PageWithCursor
           /\ Len(sent') = Len(sent) + 1 ) =>
             sent'[Len(sent')].url = BodyNextPage
      /\ (call'.get_all_pages /\ PageWithoutCursor') =>
             (pc' = "returned" /\ PageAccepted')
      /\ (pc = "returned") => (pc' = "idle" /\ sent' = <<>>) ]_vars

C14_Witness ==
  /\ call.get_all_pages
  /\ Len(sent) = 3
  /\ sent[1].got.t = "response"
  /\ sent[1].got.content.k = "json"
  /\ sent[2].url = DictGet(sent[1].got.content.val, "next_page")
  /\ sent[2].url # sent[1].url
  /\ sent[3].url = DictGet(sent[2].got.content.val, "next_page")
  /\ PageWithoutCursor
  /\ TypeIs("octet-stream")
  /\ pc = "returned"

BodyCount == DictGet(outcome.content.val, "count")
NextIsIncremental == Contains(BodyNextPage.v, "incremental")

C16_NonMappingBodyAccepted ==
  ( /\ GotSuccess
    /\ ~BodyIsEmpty
    /\ TypeIs("json")
    /\ BodyParses
    /\ ~BodyIsMapping ) =>
    /\ PageAccepted
    /\ url = PyNone
    /\ pc = "returned"

\* C17: a successful page with a text content-type whose body is not JSON is
\* accepted as raw text without error and ends the call: nothing is sent
\* after it, get_all_pages or not.
C17_UnparsedTextIsTerminal ==
  ( /\ GotSuccess
    /\ ~BodyIsEmpty
    /\ TypeIs("text")
    /\ ~TypeIs("json")
    /\ ~BodyParses ) =>
    /\ PageAccepted
    /\ error = NoExc
    /\ pc = "returned"

\* C18: a successful response with a JSON content-type and a non-empty body
\* that does not parse ends the call with the parse error: no page is
\* accumulated for it, the request is not sent again even with budget left,
\* and no value is returned.
C18_JsonParseFailureIsFatal ==
  ( /\ GotSuccess
    /\ ~BodyIsEmpty
    /\ TypeIs("json")
    /\ ~BodyParses ) =>
    /\ pc = "raised"
    /\ ErrorClass = "ValueError"
    /\ PageNotAccepted
    /\ Attempts(LastSent.page) = 1
    /\ returned = Unset

C18_Witness ==
  /\ GotSuccess
  /\ TypeIs("json")
  /\ ~BodyIsEmpty
  /\ ~BodyParses
  /\ BudgetOfCall > 0
  /\ "RequestException" \in RetrySetOfCall.classes
  /\ Len(results) = 1
  /\ pc = "raised"

\* the exchanges among the first n of the call that gave a success status
Successes(n) ==
  { i \in 1 .. n : /\ sent[i].got.t = "response"
                   /\ SuccessStatus(sent[i].got.status_code) }

\* the exchange that gave the k-th success status of the call
NthSuccess(k) ==
  CHOOSE i \in Successes(Len(sent)) : Cardinality(Successes(i)) = k

\* retval as the requests of the call were made with
RetvalOfCall == IF CallHasPolicy THEN "None" ELSE call.retval

\* entry is what the call keeps of the response resp
EntryOf(entry, resp) ==
  IF call.complete_response
  THEN /\ entry.t = "dict"
       /\ DictGet(entry, "response") = resp
       /\ DictGet(entry, "content") \in {resp.content, resp.content.val}
       /\ DictGet(entry, "status") = PyInt(resp.status_code)
  ELSE IF RetvalOfCall = "code" THEN entry = PyInt(resp.status_code)
  ELSE entry \in { resp.headers.location, resp.content, resp.content.val,
                   StatusText(resp.status_code) }

FullRecords ==
  /\ Len(results) = Cardinality(Successes(Len(sent)))
  /\ \A k \in DOMAIN results :
        /\ results[k].t = "dict"
        /\ EntryOf(results[k], sent[NthSuccess(k)].got)

\* C20 as stated: with complete_response true every call, paginated or not,
\* returns the sequence of per-page records, a one-element sequence for a
\* single page.
C20_FullResponseAlwaysSequence ==
  (call.complete_response /\ pc = "returned") =>
    /\ FullRecords
    /\ returned = PyList(results)

\* C20, amended: with complete_response true the pages are kept as
\* (response, content, status) records; a call with get_all_pages true
\* returns their sequence unmerged, a one-element sequence for one page,
\* and a call with get_all_pages false returns the record of its one page
\* itself.
C20_FullResponseSequenceWhenPaginated ==
  (call.complete_response /\ pc = "returned") =>
    /\ FullRecords
    /\ IF call.get_all_pages
       THEN returned = PyList(results)
       ELSE Len(results) = 1 /\ returned = results[1]

C20_Witness ==
  /\ call.complete_response
  /\ call.get_all_pages
  /\ pc = "returned"
  /\ Len(results) = 2
  /\ returned = PyList(results)
  /\ DictGet(results[1], "status") # DictGet(results[2], "status")

\* the content of the latest page: its decoded body when the content-type
\* is JSON or text and the body parses, else the raw bytes
PageContent ==
  IF ~BodyIsEmpty /\ (TypeIs("json") \/ TypeIs("text")) /\ BodyParses
  THEN outcome.content.val
  ELSE outcome.content

\* the latest page was accepted in a call that uses the default selector
DefaultSelected ==
  /\ GotSuccess
  /\ PageAccepted
  /\ ~call.complete_response
  /\ RetvalOfCall = "None"

LastCaptured == results[Len(results)]

\* C21 as stated: under the default selector a page is captured as its
\* decoded body when that is present, else as its Location header when that
\* is present, else as the status text.
C21_DefaultPrefersBody ==
  DefaultSelected =>
    LastCaptured =
      (IF Truthy(PageContent) THEN PageContent
       ELSE IF Truthy(outcome.headers.location) THEN outcome.headers.location
       ELSE StatusText(outcome.status_code))

\* C21, amended: under the default selector a page is captured as its
\* Location header when that is present and non-empty, else as its content
\* when that is truthy, else as the status text; a page with both a body
\* and a Location header is captured as the Location.
C21_DefaultPrefersLocation ==
  DefaultSelected =>
    LastCaptured =
      (IF Truthy(outcome.headers.location) THEN outcome.headers.location
       ELSE IF Truthy(PageContent) THEN PageContent
       ELSE StatusText(outcome.status_code))

C21_Witness ==
  /\ DefaultSelected
  /\ GotStatus(201)
  /\ Truthy(outcome.headers.location)
  /\ Truthy(PageContent)
  /\ LastCaptured = outcome.headers.location
  /\ pc = "returned"

\* ------------------------------------------------ normalisation properties
\* merge is _process_response_data with normalisation not skipped; `data`
\* is the page sequence as passed, `returned` what merge gave.
Merged == pc = "returned" /\ data # <<>>
MergeEnded == pc \in {"returned", "raised"} /\ data # <<>>

\* C22: merge of a one-element page sequence returns that element itself,
\* whatever its shape: merge([x]) = x.
C22_MergeOfOneIsIdentity ==
  (MergeEnded /\ Len(data) = 1) =>
    /\ pc = "returned"
    /\ returned = data[1]

C22_Witness ==
  /\ Merged
  /\ Len(data) = 1
  /\ data[1] = MapOf("a", ListOf12)
  /\ returned = data[1]

AllPagesEqual == \A i \in DOMAIN data : data[i] = data[1]

\* C23: for two or more pages that are pairwise equal, merge returns one
\* copy of the page, whether the page is a scalar, a list or a mapping.
C23_EqualPagesCollapse ==
  (MergeEnded /\ Len(data) >= 2 /\ AllPagesEqual) =>
    /\ pc = "returned"
    /\ returned = data[1]

AllMappings == \A i \in DOMAIN data : data[i].t = "dict"
AllLists == \A i \in DOMAIN data : data[i].t = "list"

\* the keys of the mapping pages
KeysOf(pages) ==
  UNION { { pages[i].v[j].k : j \in DOMAIN pages[i].v } :
            i \in { n \in DOMAIN pages : pages[n].t = "dict" } }

\* every value that the pages hold under key is a list
ListsOnly(pages, key) ==
  \A i \in DOMAIN pages :
    (pages[i].t = "dict" /\ HasKey(pages[i].v, key)) =>
       DictGet(pages[i], key).t = "list"

\* the lists held under key, concatenated in page order
RECURSIVE ConcatUnder(_, _)
ConcatUnder(pages, key) ==
  IF pages = <<>> THEN <<>>
  ELSE (IF Head(pages).t = "dict" /\ HasKey(Head(pages).v, key)
        THEN DictGet(Head(pages), key).v ELSE <<>>)
       \o ConcatUnder(Tail(pages), key)

\* the list pages concatenated in page order
RECURSIVE ConcatPages(_)
ConcatPages(pages) ==
  IF pages = <<>> THEN <<>>
  ELSE Head(pages).v \o ConcatPages(Tail(pages))

\* some key holds a value that is not a list in one page and a list in a
\* later page
ListAfterNonList(pages) ==
  \E i, j \in DOMAIN pages : \E key \in KeysOf(pages) :
    /\ i < j
    /\ pages[i].t = "dict" /\ HasKey(pages[i].v, key)
    /\ DictGet(pages[i], key).t # "list"
    /\ pages[j].t = "dict" /\ HasKey(pages[j].v, key)
    /\ DictGet(pages[j], key).t = "list"

\* what merge returned is one mapping holding, under every key whose values
\* are lists, their concatenation in page order
MergedMapping ==
  /\ pc = "returned"
  /\ returned.t = "dict"
  /\ \A key \in KeysOf(data) :
        ListsOnly(data, key) =>
          DictGet(returned, key) = PyList(ConcatUnder(data, key))

\* the part of C24 that holds: concatenation in page order, for mapping
\* pages in which no key holds a list after a value that is not a list
ConcatenationInPageOrder ==
  (MergeEnded /\ Len(data) >= 2 /\ ~AllPagesEqual) =>
    /\ (AllMappings /\ ~ListAfterNonList(data)) => MergedMapping
    /\ AllLists => (pc = "returned" /\ returned = PyList(ConcatPages(data)))

\* C24: for two or more distinct mapping pages merge returns one mapping in
\* which every key whose values are lists holds the concatenation of those
\* lists in page order; for two or more distinct list pages it returns the
\* concatenation of the pages in page order.
C24_MergeConcatenates ==
  (MergeEnded /\ Len(data) >= 2 /\ ~AllPagesEqual) =>
    /\ AllMappings => MergedMapping
    /\ AllLists => (pc = "returned" /\ returned = PyList(ConcatPages(data)))

\* pages of mixed shape: a list page together with a mapping page, or a page
\* that is neither among pages that are not all equal
MixedShape ==
  \/ /\ \E i \in DOMAIN data : data[i].t = "list"
     /\ \E i \in DOMAIN data : data[i].t = "dict"
  \/ /\ \E i \in DOMAIN data : data[i].t \notin {"list", "dict"}
     /\ ~AllPagesEqual

\* C25: for pages of mixed shape merge returns the raw page sequence, every
\* page equal to what was passed in, in any page order and also when some
\* of the list or mapping pages are empty.
C25_MixedShapesReturnRawPages ==
  (MergeEnded /\ Len(data) >= 2 /\ MixedShape) =>
    /\ pc = "returned"
    /\ returned = PyList(data)

\* C26: merge modifies none of the pages passed to it: when it has returned
\* or raised, every page, the list values inside the first mapping page
\* included, equals its value before the call.
C26_MergeLeavesPagesAlone ==
  MergeEnded => results = data

\* C27: merge has no failure mode on JSON values: for every non-empty
\* sequence of scalars, lists and mappings it returns a value and does not
\* raise, also when a key holds a non-list value in an earlier page and a
\* list in a later one.
C27_MergeNeverRaises ==
  MergeEnded => (pc = "returned" /\ error = NoExc /\ returned # Unset)

\* ------------------------------------------------ retry policy properties
\* the client's stored policy
StoredPolicy == << self_retry_on, self_max_retries >>

PolicyWellFormed ==
  /\ \A n \in self_retry_on.codes : ~(200 <= n /\ n < 300)
  /\ \A c \in self_retry_on.classes :
        \E a \in ACCEPTED_ERROR_RETRIES : IsSubclass(c, a)
  /\ self_max_retries \in Nat

\* a retry_on value the client must refuse: it holds a 2xx code, a class
\* that is not an accepted error class, or a member that is neither
Refused(value) ==
  /\ value.t # "none"
  /\ \/ \E n \in value.codes : 200 <= n /\ n < 300
     \/ \E c \in value.classes :
          \A a \in ACCEPTED_ERROR_RETRIES : ~IsSubclass(c, a)
     \/ value.other

Rejected == error' = Exc("ValueError", 0) /\ StoredPolicy' = StoredPolicy

PolicyBeforeCall ==
  IF saved.active THEN << saved.retry_on, saved.max_retries >>
  ELSE StoredPolicy

\* C30: on a single thread a call leaves the client's stored policy as it
\* found it: no step of a call, the rejection of its retry_on or
\* max_retries included, changes the policy the client had when the call
\* started, and once the call has returned or raised the client's retry
\* set and max_retries are that policy again.
C30_CallRestoresStoredPolicy ==
  [][ /\ (pc # "idle" \/ pc' # "idle") => PolicyBeforeCall' = PolicyBeforeCall
      /\ (pc' \in {"returned", "raised", "idle"}) =>
            (~saved'.active /\ StoredPolicy' = PolicyBeforeCall') ]_vars

C30_Witness ==
  /\ pc = "returned"
  /\ sent # <<>>
  /\ CallHasPolicy
  /\ call.max_retries = MaxRetriesBound
  /\ self_max_retries = 1
  /\ self_retry_on.codes = {401, 422, 429, 500}
  /\ self_retry_on # RetryOnStored(call.retry_on)

\* ------------------------------------------------- concurrency properties
\* C29: two calls that run at once on one client with retry policies of
\* their own share no state: whenever a call handles a failure, the budget
\* it decides on is its own max_retries, and when both calls have finished
\* the client holds the policy it held before they started.
C29_ConcurrentCallsShareNoPolicy ==
  (threads # <<>>) =>
    /\ \A t \in Threads :
          threads[t].budget_read # -1 =>
             threads[t].budget_read = ThreadPolicy(t).max_retries
    /\ (\A t \in Threads : threads[t].pc = "done") =>
          StoredPolicy = << RetryOnStored(SharedPolicy.retry_on),
                            SharedPolicy.max_retries >>

\* --------------------------------------------------- the first request
\* the query string that a query argument stands for, as tokens of the URL
QueryString(query) ==
  IF ~Truthy(query) THEN <<>>
  ELSE << "?" >> \o [i \in 1 .. Len(query.v) |-> query.v[i].k]

\* C31: the first request of a call goes to the base URL plus the call's
\* path plus the call's query parameters, so a non-empty query is part of
\* the first request.
C31_FirstRequestCarriesQuery ==
  (InCall /\ sent # <<>>) =>
     sent[1].url = PyStr(zd_url \o call.path \o QueryString(call.query))

\* ------------------------------------------------------------ termination
\* a response that is a successful page naming a next page
HasCursor(got) ==
  /\ got.t = "response"
  /\ SuccessStatus(got.status_code)
  /\ got.content.k = "json"
  /\ got.headers.content_type.t = "str"
  /\ \/ Contains(got.headers.content_type.v, "json")
     \/ Contains(got.headers.content_type.v, "text")
  /\ got.content.val.t = "dict"
  /\ DictGet(got.content.val, "next_page").t = "str"

\* a response that is a successful page without a cursor
EndsChain(got) ==
  /\ got.t = "response"
  /\ SuccessStatus(got.status_code)
  /\ ~HasCursor(got)

\* the pages the call has asked for so far
PagesTried == { sent[i].page : i \in DOMAIN sent }

\* C32: a call whose backend gives a page without a cursor terminates: no
\* request is sent after such a page and the call has ended with a result
\* or an error, and the exchanges of the call are at most the pages asked
\* for times (max_retries + 1).
C32_FiniteChainTerminates ==
  InCall =>
    /\ \A i \in DOMAIN sent :
          EndsChain(sent[i].got) => (i = Len(sent) /\ pc # "loop")
    /\ Len(sent) <= Cardinality(PagesTried) * (BudgetOfCall + 1)

\* ------------------------------------------------- the policy of the call
\* the call was made without a retry policy of its own
CallWithoutPolicy == call.max_retries = 0 \/ ~RetryOnTruthy(call.retry_on)

\* the latest failure is named by the retry_on argument of the call
ListedInCallRetryOn ==
  LET own == RetryOnStored(call.retry_on) IN
  \/ FailureClass \in own.classes
  \/ GotErrorStatus /\ outcome.status_code \in own.codes
  \/ GotNetworkFailure /\ "RequestException" \in own.classes

\* C33: the retry policy passed on the call governs it: a call made with
\* max_retries = 0 or retry_on = None performs no retry, whatever policy the
\* client holds, and a call made with a retry_on and a positive max_retries
\* retries the failures its retry_on names while its max_retries lasts.
C33_CallPolicyGoverns ==
  (InCall /\ GotFailure) =>
    /\ CallWithoutPolicy =>
         (pc = "raised" /\ Attempts(LastSent.page) = 1)
    /\ (~CallWithoutPolicy) =>
         /\ (ListedInCallRetryOn /\ Attempts(LastSent.page) <= call.max_retries)
               => RetriedSamePage
         /\ (pc = "loop") => Attempts(LastSent.page) <= call.max_retries

\* ------------------------------------------------ the selector of the call
\* what the retval argument of the call selects from the latest page
SelectedByCall ==
  CASE call.retval = "content" -> PageContent
    [] call.retval = "code" -> PyInt(outcome.status_code)
    [] call.retval = "location" -> outcome.headers.location
    [] call.retval = "headers" -> [t |-> "headers", v |-> outcome.headers]

\* C34: the value captured for a page under a retval of 'content', 'code',
\* 'location' or 'headers' is what that selector selects from the page,
\* with or without a retry_on and max_retries on the call.
C34_SelectorIgnoresPolicy ==
  ( /\ GotSuccess
    /\ PageAccepted
    /\ ~call.complete_response
    /\ call.retval \in {"content", "code", "location", "headers"} ) =>
    LastCaptured = SelectedByCall

\* ------------------------------------------------------ unusable delay hints
\* the latest response carries a Retry-After that is no delay: text that is
\* not a number, or a negative number
RetryAfterUnusable ==
  /\ GotErrorStatus
  /\ \/ outcome.headers.retry_after.t = "str"
     \/ /\ outcome.headers.retry_after.t = "numstr"
        /\ outcome.headers.retry_after.v < 0

\* C35: a failure that is retried sleeps zero when its response carries a
\* Retry-After that is not a usable delay, and when it is a network failure
\* with no response: the retry still happens, on the same page, and no
\* error comes of it.
C35_UnusableDelayRetriesAtOnce ==
  ( /\ GotFailure
    /\ ListedInRetrySet
    /\ BudgetRemains
    /\ RetryAfterUnusable \/ GotNetworkFailure ) =>
    /\ RetriedSamePage
    /\ error = NoExc
    /\ clock = LastSent.at

\* ------------------------------------------- incremental pages without count
\* C36: a successful page whose next_page contains 'incremental' and whose
\* body has no count is accepted without error and keeps its cursor: the
\* call goes on to that next_page, or returns when it is not paginated.
C36_IncrementalWithoutCountKeepsCursor ==
  (PageWithCursor /\ NextIsIncremental /\ BodyCount.t = "none") =>
    /\ PageAccepted
    /\ pc \in {"loop", "returned"}
    /\ error = NoExc
    /\ url = BodyNextPage
    /\ call.get_all_pages => pc = "loop"

\* ----------------------------------------------------------- scalar pages
AllScalars == \A i \in DOMAIN data : data[i].t \in {"none", "int", "str"}

\* C37: for two or more pages that are all scalars, merge returns the first
\* page when the pages are all equal, and otherwise the page sequence as it
\* was passed, in order and unmodified.
C37_ScalarPagesCollapseOrStayRaw ==
  (MergeEnded /\ Len(data) >= 2 /\ AllScalars) =>
    /\ pc = "returned"
    /\ results = data
    /\ returned = (IF AllPagesEqual THEN data[1] ELSE PyList(data))

C37_Witness ==
  /\ Merged
  /\ data = << PyInt(1), PyInt(1), PyStr(<<"x">>) >>
  /\ returned = PyList(data)

\* ---------------------------------------------------- keys of the merged map
\* no page holds a list under key
NoListUnder(pages, key) ==
  \A i \in DOMAIN pages :
    (pages[i].t = "dict" /\ HasKey(pages[i].v, key)) =>
       DictGet(pages[i], key).t # "list"

\* the value under key in the last page that carries it
LastUnder(pages, key) ==
  LET carriers == { i \in DOMAIN pages :
                      pages[i].t = "dict" /\ HasKey(pages[i].v, key) }
      last == CHOOSE i \in carriers : \A j \in carriers : j <= i
  IN  DictGet(pages[last], key)

\* C38: when merge combines two or more pages into a mapping, every key of
\* every mapping page is a key of the merged mapping, and a key whose values
\* are not lists holds the value of the last page that carries it.
C38_MergedMappingKeepsKeys ==
  (Merged /\ Len(data) >= 2 /\ returned.t = "dict") =>
    \A key \in KeysOf(data) :
      /\ HasKey(returned.v, key)
      /\ NoListUnder(data, key) => DictGet(returned, key) = LastUnder(data, key)

C38_Witness ==
  /\ Merged
  /\ data = << MapOf("a", PyInt(5)), MapOf("y", PyInt(1)), MapOf("a", PyInt(7)) >>
  /\ returned.t = "dict"
  /\ DictGet(returned, "a") = PyInt(7)
  /\ DictGet(returned, "y") = PyInt(1)

\* ------------------------------------------------- send_prompt properties
\* the OpenAI call of the prompt failed with an exception of class base
PromptFailedWith(base) ==
  outcome.t = "raised" /\ IsOpenaiInstance(outcome.exc, base)

\* C39: send_prompt never raises, and its statusCode tells the kind of
\* failure: 429 when the OpenAI call failed with a rate-limit error, 503
\* with a connection error, 400 with any other error; 500 is returned only
\* when the call succeeded and carried no choices.
C39_StatusCodeTellsFailure ==
  /\ ("context" \in DOMAIN call) => error = NoExc
  /\ ("context" \in DOMAIN call /\ pc = "returned") =>
       /\ PromptFailedWith("RateLimitError") => returned.statusCode = 429
       /\ PromptFailedWith("APIConnectionError") => returned.statusCode = 503
       /\ ( /\ outcome.t = "raised"
            /\ ~PromptFailedWith("RateLimitError")
            /\ ~PromptFailedWith("APIConnectionError") ) =>
              returned.statusCode = 400
       /\ (returned.statusCode = 500) =>
             /\ outcome.t = "value"
             /\ outcome.value.choices = PyList(<<>>)

====
